---- MODULE Spec2Model ----
(***************************************************************************)
(* Model of the ambient sound mixer (ambient_mixer_enhanced.py): the fixed  *)
(* registry of sound slots, the playback wrapper over the audio engine's    *)
(* mixing channels, and the preset store kept in presets.json.              *)
(*                                                                          *)
(* Floats are kept in hundredths: volume 1.0 is 100, an eq level 1.0 is     *)
(* 100.  A Python dict that the code iterates (a preset's settings) is a    *)
(* sequence in insertion order; a dict that is only looked up is a function.*)
(***************************************************************************)
EXTENDS Integers, Sequences, FiniteSets, TLC

VARIABLES
    sounds,     \* self.sounds: name -> Sound(volume, channel, is_playing, effects, button)
    chan,       \* the engine's mixing channels: what each plays and at which volume
    presets,    \* self.presets: name -> Preset
    preset_combo, \* the names offered by the preset dropdown
    file,       \* presets.json on disk
    sound_file, \* name -> state of the sound's file: "ok", "missing" or "corrupt"
    last,       \* the handler that ran last, its argument and the message boxes it showed
    steps,      \* handlers run so far (bounds the run)
    saved       \* history: name -> what save_preset saw and stored when it last saved name

vars == <<sounds, chan, presets, preset_combo, file, sound_file, last, steps, saved>>

----------------------------------------------------------------------------
(* Program constants *)

SoundOrder == <<"Rain", "Coffee Shop", "White Noise", "Forest", "Ocean">>
Sounds == {SoundOrder[i] : i \in 1..Len(SoundOrder)}
EffectNames == {"reverb", "eq_low", "eq_mid", "eq_high"}

One == 100
NumChannels == 8
NoChannel == -1
NoSound == "idle"
Channels == 0..(NumChannels - 1)

DefaultEffects == [e \in EffectNames |-> IF e = "reverb" THEN 0 ELSE One]

NewSound == [volume |-> One, channel |-> NoChannel, is_playing |-> FALSE,
             effects |-> DefaultEffects, button |-> "Play"]

initialize_sounds == [s \in Sounds |-> NewSound]

mixer_init == [c \in Channels |-> [busy |-> NoSound, volume |-> One]]

----------------------------------------------------------------------------
(* Bounds of the model: what the user does and types *)

\* a run is at most MaxSteps handlers long
MaxSteps == 5
\* datetime.now() takes the values 1..MaxTime
MaxTime == 1

Times == 1..MaxTime
\* positions of a volume slider (0..100)
SliderValues == {50, 100}
\* position of an effect slider, in hundredths
EffectValues == {50}
ChangedEffects == {"reverb", "eq_low"}
PresetNames == {"p1", "p2"}
\* what the user types as category and tags; the tags entry, which the code
\* takes apart character by character, is the sequence of its code points:
\* here the empty entry and "\ta, ,b\n"
MetaInputs == {[category |-> "", tags |-> << >>],
               [category |-> "calm", tags |-> <<9, 97, 44, 32, 44, 98, 10>>]}

----------------------------------------------------------------------------
(* The audio engine (pygame.mixer) as the code uses it *)

\* find_channel(): the lowest idle channel, None when all are busy
find_channel(ch) ==
    IF \E c \in Channels : ch[c].busy = NoSound
    THEN CHOOSE c \in Channels :
            /\ ch[c].busy = NoSound
            /\ \A d \in Channels : ch[d].busy = NoSound => c <= d
    ELSE NoChannel

\* channel.play(sound_obj, loops=-1); channel.set_volume(v)
channel_play(ch, c, s, v) == [ch EXCEPT ![c] = [busy |-> s, volume |-> v]]

\* channel.stop()
channel_stop(ch, c) == [ch EXCEPT ![c].busy = NoSound]

\* channel.set_volume(v)
channel_set_volume(ch, c, v) == [ch EXCEPT ![c].volume = v]

----------------------------------------------------------------------------
(* Playback wrapper.  m is [sounds, chan, msgs]: the registry, the engine   *)
(* and the message boxes shown so far by the running handler.               *)

\* the sounds pygame.mixer.Sound(filename) loads without raising: the file
\* exists and decodes
loadable == {s \in Sounds : sound_file[s] = "ok"}

play_sound(m, s) ==
    IF s \notin loadable
    THEN [m EXCEPT !.msgs = @ \cup {"Playback Error"}]
    ELSE LET channel == find_channel(m.chan) IN
         IF channel = NoChannel
         THEN [m EXCEPT !.msgs = @ \cup {"No available audio channels"}]
         ELSE [m EXCEPT !.chan = channel_play(@, channel, s, m.sounds[s].volume),
                        !.sounds[s].channel = channel,
                        !.sounds[s].is_playing = TRUE,
                        !.sounds[s].button = "Stop"]

\* faulty variant: stop_sound that marks the slot stopped and forgets channel.stop()
stop_sound_keeps_channel(m, s) ==
    [m EXCEPT !.sounds[s].is_playing = FALSE,
              !.sounds[s].button = "Play"]

stop_sound(m, s) ==
    LET c == m.sounds[s].channel IN
    [m EXCEPT !.chan = IF c # NoChannel THEN channel_stop(@, c) ELSE @,
              !.sounds[s].is_playing = FALSE,
              !.sounds[s].button = "Play"]

Machine == [sounds |-> sounds, chan |-> chan, msgs |-> {}]

\* load_sounds, run by __init__: a warning box for a sound whose file is
\* missing, an error box for a sound whose file the engine cannot decode
load_sounds(files) ==
    {"File Missing" : s \in {t \in Sounds : files[t] = "missing"}}
        \cup {"Loading Error" : s \in {t \in Sounds : files[t] = "corrupt"}}

\* one more handler of the run
Tick == steps < MaxSteps /\ steps' = steps + 1

\* what a handler leaves in last: its name, its arguments, its message boxes
Ran(op, args, m) == [op |-> op, arg |-> args, msgs |-> m.msgs]

toggle_sound(s) ==
    LET m == IF sounds[s].is_playing THEN stop_sound(Machine, s)
                                     ELSE play_sound(Machine, s) IN
    /\ Tick
    /\ sounds' = m.sounds
    /\ chan' = m.chan
    /\ last' = Ran("toggle_sound", <<s>>, m)
    /\ UNCHANGED <<presets, preset_combo, file, sound_file, saved>>

update_effect(s, effect, value) ==
    LET m0 == [Machine EXCEPT !.sounds[s].effects[effect] = value]
        m  == IF m0.sounds[s].is_playing
              THEN play_sound(stop_sound(m0, s), s)
              ELSE m0 IN
    /\ Tick
    /\ sounds' = m.sounds
    /\ chan' = m.chan
    /\ last' = Ran("update_effect", <<s, effect, value>>, m)
    /\ UNCHANGED <<presets, preset_combo, file, sound_file, saved>>

\* sound.volume = value / 100, in hundredths
VolumeOf(value) == (value * One) \div 100

on_volume_change(s, value) ==
    LET v == VolumeOf(value)
        c == sounds[s].channel IN
    /\ Tick
    /\ sounds' = [sounds EXCEPT ![s].volume = v]
    /\ chan' = IF c # NoChannel THEN channel_set_volume(chan, c, v) ELSE chan
    /\ last' = [op |-> "on_volume_change", arg |-> <<s, value>>, msgs |-> {}]
    /\ UNCHANGED <<presets, preset_combo, file, sound_file, saved>>

----------------------------------------------------------------------------
(* Preset store *)

\* the code points str.strip() removes: those for which str.isspace() holds
\* (tab, LF, VT, FF, CR, FS, GS, RS, US, space, NEL, NBSP and the Unicode spaces)
Whitespace ==
    (9..13) \cup (28..32) \cup {133, 160, 5760} \cup (8192..8202)
        \cup {8232, 8233, 8239, 8287, 12288}

\* str.strip() of a string given as its code points
RECURSIVE LStrip(_)
LStrip(str) == IF str # << >> /\ Head(str) \in Whitespace THEN LStrip(Tail(str)) ELSE str
RECURSIVE RStrip(_)
RStrip(str) == IF str # << >> /\ str[Len(str)] \in Whitespace
               THEN RStrip(SubSeq(str, 1, Len(str) - 1)) ELSE str
Strip(str) == RStrip(LStrip(str))

\* str.split(','): the pieces between commas (code point 44), empty ones included
RECURSIVE SplitFrom(_, _, _)
SplitFrom(str, i, piece) ==
    IF i > Len(str) THEN <<piece>>
    ELSE IF str[i] = 44 THEN <<piece>> \o SplitFrom(str, i + 1, << >>)
    ELSE SplitFrom(str, i + 1, Append(piece, str[i]))
Split(str) == SplitFrom(str, 1, << >>)

\* [tag.strip() for tag in raw.split(',') if tag.strip()]
RECURSIVE StripAll(_)
StripAll(pieces) ==
    IF pieces = << >> THEN << >>
    ELSE IF Strip(Head(pieces)) # << >>
         THEN <<Strip(Head(pieces))>> \o StripAll(Tail(pieces))
         ELSE StripAll(Tail(pieces))
ParseTags(raw) == StripAll(Split(raw))

\* the dict comprehension of save_preset over self.sounds.items()
preset_data ==
    [i \in 1..Len(SoundOrder) |->
        [sound      |-> SoundOrder[i],
         volume     |-> sounds[SoundOrder[i]].volume,
         is_playing |-> sounds[SoundOrder[i]].is_playing,
         effects    |-> sounds[SoundOrder[i]].effects]]

\* preset.__dict__ as json.dump writes it: the members in field order
PresetDict(p) ==
    << <<"name", p.name>>, <<"settings", p.settings>>, <<"category", p.category>>,
       <<"tags", p.tags>>, <<"created_at", p.created_at>> >>

Member(obj, key) == (CHOOSE i \in 1..Len(obj) : obj[i][1] = key)

\* Preset(**preset_data)
PresetOf(obj) ==
    [name       |-> obj[Member(obj, "name")][2],
     settings   |-> obj[Member(obj, "settings")][2],
     category   |-> obj[Member(obj, "category")][2],
     tags       |-> obj[Member(obj, "tags")][2],
     created_at |-> obj[Member(obj, "created_at")][2]]

\* faulty variant: the file is written from self.presets as it was before the
\* new preset was stored
save_presets_to_file_stale(ps) ==
    [kind |-> "json", data |-> {<<n, PresetDict(presets[n])>> : n \in DOMAIN presets}]

\* save_presets_to_file: json.dump of {name: preset.__dict__}
save_presets_to_file(ps) ==
    [kind |-> "json", data |-> {<<n, PresetDict(ps[n])>> : n \in DOMAIN ps}]

NoPresets == [n \in {} |-> 0]

\* load_presets: {} when the file is missing or is not JSON
load_presets(f) ==
    IF f.kind = "json"
    THEN [n \in {e[1] : e \in f.data} |->
            PresetOf((CHOOSE e \in f.data : e[1] = n)[2])]
    ELSE NoPresets

\* update_preset_list: the dropdown offers list(self.presets.keys())
update_preset_list(ps) == DOMAIN ps

FileAbsent == [kind |-> "absent", data |-> {}]
FileInvalid == [kind |-> "invalid", data |-> {}]

\* the volume and effects of every slot
Mix == [s \in DOMAIN sounds |-> [volume |-> sounds[s].volume, effects |-> sounds[s].effects]]

\* faulty variant: save_preset without the check for an empty name
save_preset_unchecked(name, category, tagsRaw, now) ==
    LET preset == [name |-> name, settings |-> preset_data,
                   category |-> category, tags |-> ParseTags(tagsRaw),
                   created_at |-> now]
        ps == (name :> preset) @@ presets IN
    /\ Tick
    /\ presets' = ps
    /\ file' = save_presets_to_file(ps)
    /\ preset_combo' = update_preset_list(ps)
    /\ last' = [op |-> "save_preset", arg |-> <<name>>, msgs |-> {"Success"}]
    /\ saved' = (name :> [mix |-> Mix, preset |-> ps[name]]) @@ saved
    /\ UNCHANGED <<sounds, chan, sound_file>>

save_preset(name, category, tagsRaw, now) ==
    /\ Tick
    /\ IF name = ""
       THEN /\ last' = [op |-> "save_preset", arg |-> <<name>>,
                        msgs |-> {"Please enter a preset name"}]
            /\ UNCHANGED <<sounds, chan, presets, preset_combo, file, sound_file, saved>>
       ELSE LET preset == [name |-> name, settings |-> preset_data,
                           category |-> category, tags |-> ParseTags(tagsRaw),
                           created_at |-> now]
                ps == (name :> preset) @@ presets IN
            /\ presets' = ps
            /\ file' = save_presets_to_file(ps)
            /\ preset_combo' = update_preset_list(ps)
            /\ last' = [op |-> "save_preset", arg |-> <<name>>, msgs |-> {"Success"}]
            /\ saved' = (name :> [mix |-> Mix, preset |-> ps[name]]) @@ saved
            /\ UNCHANGED <<sounds, chan, sound_file>>

\* faulty variant: the loop restores the effects and the playback, not the volume
RECURSIVE ApplySettingsKeepsVolume(_, _, _)
ApplySettingsKeepsVolume(m, settings, i) ==
    IF i > Len(settings) THEN m
    ELSE LET e == settings[i] IN
         IF e.sound \in DOMAIN m.sounds
         THEN LET m1 == [m EXCEPT !.sounds[e.sound].effects = e.effects]
                  m2 == IF e.is_playing THEN play_sound(m1, e.sound)
                                        ELSE stop_sound(m1, e.sound) IN
              ApplySettingsKeepsVolume(m2, settings, i + 1)
         ELSE ApplySettingsKeepsVolume(m, settings, i + 1)

\* faulty variant: the loop makes a slot for a sound the registry does not have
RECURSIVE ApplySettingsAddsSlot(_, _, _)
ApplySettingsAddsSlot(m, settings, i) ==
    IF i > Len(settings) THEN m
    ELSE LET e == settings[i]
             m0 == IF e.sound \in DOMAIN m.sounds THEN m
                   ELSE [m EXCEPT !.sounds = (e.sound :> NewSound) @@ @]
             m1 == [m0 EXCEPT !.sounds[e.sound].volume = e.volume,
                              !.sounds[e.sound].effects = e.effects]
             m2 == IF e.is_playing THEN play_sound(m1, e.sound)
                                   ELSE stop_sound(m1, e.sound) IN
         ApplySettingsAddsSlot(m2, settings, i + 1)

\* the loop of load_preset over preset.settings.items(), from entry i on
RECURSIVE ApplySettings(_, _, _)
ApplySettings(m, settings, i) ==
    IF i > Len(settings) THEN m
    ELSE LET e == settings[i] IN
         IF e.sound \in DOMAIN m.sounds
         THEN LET m1 == [m EXCEPT !.sounds[e.sound].volume = e.volume,
                                  !.sounds[e.sound].effects = e.effects]
                  m2 == IF e.is_playing THEN play_sound(m1, e.sound)
                                        ELSE stop_sound(m1, e.sound) IN
              ApplySettings(m2, settings, i + 1)
         ELSE ApplySettings(m, settings, i + 1)

load_preset(preset_name) ==
    /\ Tick
    /\ IF preset_name = "" \/ preset_name \notin DOMAIN presets
       THEN /\ last' = [op |-> "load_preset", arg |-> <<preset_name>>, msgs |-> {}]
            /\ UNCHANGED <<sounds, chan, presets, preset_combo, file, sound_file, saved>>
       ELSE LET m == ApplySettings(Machine, presets[preset_name].settings, 1) IN
            /\ sounds' = m.sounds
            /\ chan' = m.chan
            /\ last' = Ran("load_preset", <<preset_name>>, m)
            /\ UNCHANGED <<presets, preset_combo, file, sound_file, saved>>

\* the window is closed and the program started again: __init__
restart ==
    /\ Tick
    /\ sounds' = initialize_sounds
    /\ chan' = mixer_init
    /\ presets' = load_presets(file)
    /\ preset_combo' = update_preset_list(load_presets(file))
    /\ last' = [op |-> "init", arg |-> << >>, msgs |-> load_sounds(sound_file)]
    /\ UNCHANGED <<file, sound_file, saved>>

----------------------------------------------------------------------------

\* a presets.json left by another version of the program, with a sound this
\* registry does not have
LegacyPreset ==
    [name |-> "legacy",
     settings |-> <<[sound |-> "Thunder", volume |-> One, is_playing |-> TRUE,
                     effects |-> DefaultEffects]>> \o
                  [i \in 1..Len(SoundOrder) |->
                     [sound |-> SoundOrder[i], volume |-> One, is_playing |-> i <= 3,
                      effects |-> DefaultEffects]],
     category |-> "", tags |-> << >>, created_at |-> 0]
FileLegacy == save_presets_to_file("legacy" :> LegacyPreset)

\* the sound files: those of bad are in the given state, the others load
SoundFiles(bad, state) == [s \in Sounds |-> IF s \in bad THEN state ELSE "ok"]

Start(files, sound_files) ==
    /\ sounds = initialize_sounds
    /\ chan = mixer_init
    /\ file \in files
    /\ presets = load_presets(file)
    /\ preset_combo = update_preset_list(presets)
    /\ sound_file \in sound_files
    /\ last = [op |-> "init", arg |-> << >>, msgs |-> load_sounds(sound_file)]
    /\ steps = 0
    /\ saved = NoPresets


(* The preset store: the mix of two slots, two preset names, restarts *)
Init == Start({FileAbsent, FileInvalid}, {SoundFiles({}, "ok")})

Next ==
    \/ \E s \in {"Rain"} : toggle_sound(s)
    \/ \E s \in {"Rain", "Ocean"}, v \in SliderValues : on_volume_change(s, v)
    \/ \E s \in {"Rain"}, e \in ChangedEffects, x \in EffectValues : update_effect(s, e, x)
    \/ \E n \in PresetNames \cup {""}, meta \in MetaInputs, now \in Times :
          save_preset(n, meta.category, meta.tags, now)
    \/ \E n \in PresetNames \cup {""} : load_preset(n)
    \/ restart

Spec == Init /\ [][Next]_vars

(* Playback: three slots, the engine's channels, one preset name *)
InitPlay ==
    Start({FileAbsent, FileLegacy},
          {SoundFiles({}, "ok"), SoundFiles({"Coffee Shop"}, "missing"),
           SoundFiles({"Coffee Shop"}, "corrupt")})

NextPlay ==
    \/ \E s \in {"Rain", "Coffee Shop", "Forest"} : toggle_sound(s)
    \/ \E s \in {"Rain"}, v \in SliderValues : on_volume_change(s, v)
    \/ \E s \in {"Rain"}, e \in ChangedEffects, x \in EffectValues : update_effect(s, e, x)
    \/ \E n \in {"p1"} : save_preset(n, "", << >>, 1)
    \/ \E n \in {"p1", "legacy"} : load_preset(n)
    \/ restart

SpecPlay == InitPlay /\ [][NextPlay]_vars

----------------------------------------------------------------------------
(* Properties *)

Registry == {"Rain", "Coffee Shop", "White Noise", "Forest", "Ocean"}
Applied == last.op = "load_preset" /\ last.arg[1] \in DOMAIN presets
PlayingOn(s) == {c \in Channels : chan[c].busy = s}
SavedPresets == [n \in DOMAIN saved |-> saved[n].preset]

\* C1: once save_preset has stored a preset under a name, load_preset of that
\* name leaves every slot with the volume and the effects it had when the
\* preset was last saved, whatever was changed, toggled, loaded or restarted
\* in between.
C1_LoadRestoresSavedMix ==
    (last.op = "load_preset" /\ last.arg[1] \in DOMAIN saved) =>
        \A s \in Registry :
            /\ sounds[s].volume = saved[last.arg[1]].mix[s].volume
            /\ sounds[s].effects = saved[last.arg[1]].mix[s].effects

\* p1 was saved with Rain at volume 0.5 and a changed effect, p2 with Rain at
\* full volume, and p1 has just been loaded.
C1_Witness ==
    /\ last.op = "load_preset" /\ last.arg = <<"p1">>
    /\ "p1" \in DOMAIN saved /\ "p2" \in DOMAIN saved
    /\ saved["p1"].mix["Rain"].volume = 50
    /\ saved["p2"].mix["Rain"].volume = One
    /\ sounds["Rain"].volume = 50

\* C2: when load_preset of an existing preset returns, all files being
\* loadable, every slot the preset records as playing is playing on some
\* engine channel, and every slot it records as not playing is not playing
\* and is heard on no channel.
C2_LoadRestoresPlayback ==
    (Applied /\ loadable = Sounds) =>
        LET settings == presets[last.arg[1]].settings IN
        \A i \in 1..Len(settings) :
            LET s == settings[i].sound IN
            s \in Registry =>
                IF settings[i].is_playing
                THEN sounds[s].is_playing /\ PlayingOn(s) # {}
                ELSE ~sounds[s].is_playing /\ PlayingOn(s) = {}

\* C3: the presets in memory, and the presets load_presets reads back from the
\* file the program wrote, are exactly the presets save_preset stored, each
\* as it was when last saved: same names, settings, category, tags and
\* created_at; nothing saved earlier is dropped, in this run of the program or
\* after a restart.
C3_StoreRoundTrips ==
    /\ presets = SavedPresets
    /\ file.kind = "json" => load_presets(file) = SavedPresets
    /\ file.kind # "json" => DOMAIN saved = {}

\* The program was restarted after two presets were saved, one with category
\* and the tags "a" and "b".
C3_Witness ==
    /\ last.op = "init" /\ steps > 0
    /\ DOMAIN presets = {"p1", "p2"}
    /\ presets["p1"].tags = << <<97>>, <<98>> >>
    /\ presets["p1"].category = "calm"
    /\ presets["p2"].tags = << >>

\* C4: the registry always holds exactly the five slots, and no channel ever
\* plays anything else: load_preset skips a preset entry of an unknown sound.
C4_RegistryFixed ==
    /\ DOMAIN sounds = Registry
    /\ \A c \in Channels : chan[c].busy \in Registry \cup {NoSound}

\* A preset with an entry for the unknown sound Thunder has just been applied.
C4_Witness ==
    /\ Applied
    /\ \E i \in 1..Len(presets[last.arg[1]].settings) :
          presets[last.arg[1]].settings[i].sound \notin Registry
    /\ sounds["Rain"].is_playing

\* C5: after stop_sound(name) has returned (from toggle_sound on a playing
\* sound, or from load_preset of a preset recording the sound as not playing)
\* the slot is not playing and no engine channel plays the sound.
C5_StopSilences ==
    \A s \in Registry :
        (\/ /\ last.op = "toggle_sound" /\ last.arg = <<s>>
            /\ s \in loadable /\ last.msgs = {} /\ ~sounds[s].is_playing
         \/ /\ Applied
            /\ \E i \in 1..Len(presets[last.arg[1]].settings) :
                  /\ presets[last.arg[1]].settings[i].sound = s
                  /\ ~presets[last.arg[1]].settings[i].is_playing)
        => ~sounds[s].is_playing /\ PlayingOn(s) = {}

\* C6: toggle_sound on a loadable sound flips is_playing; when it starts the
\* sound, the slot's channel plays it at the slot's volume; no other slot
\* changes.
C6_ToggleToggles ==
    [][\A s \in loadable :
          (last'.op = "toggle_sound" /\ last'.arg = <<s>>) =>
             /\ sounds'[s].is_playing = ~sounds[s].is_playing
             /\ sounds'[s].is_playing =>
                   chan'[sounds'[s].channel] = [busy |-> s, volume |-> sounds'[s].volume]
             /\ \A t \in Registry \ {s} : sounds'[t] = sounds[t]]_vars

\* C7: update_effect(name, effect, value) sets that effect of that sound and
\* changes no other effect, no volume and no other slot; a sound that was
\* playing is playing again on a channel when it returns, never for want of a
\* channel, and a sound that was not playing stays so.
C7_UpdateEffectKeepsPlayback ==
    [][\A s \in Registry, e \in EffectNames, x \in EffectValues :
          (last'.op = "update_effect" /\ last'.arg = <<s, e, x>>) =>
             /\ sounds'[s].effects = [sounds[s].effects EXCEPT ![e] = x]
             /\ sounds'[s].volume = sounds[s].volume
             /\ \A t \in Registry \ {s} : sounds'[t] = sounds[t]
             /\ sounds'[s].is_playing = sounds[s].is_playing
             /\ sounds[s].is_playing =>
                   /\ "No available audio channels" \notin last'.msgs
                   /\ sounds'[s].channel # NoChannel
                   /\ chan'[sounds'[s].channel].busy = s]_vars

\* An effect of a playing sound was changed while all eight channels were
\* busy, and the sound is playing.
C7_Witness ==
    /\ last.op = "update_effect"
    /\ sounds[last.arg[1]].is_playing
    /\ sounds[last.arg[1]].effects[last.arg[2]] = 50
    /\ \A c \in Channels : chan[c].busy # NoSound

\* C8: on_volume_change(A, v) sets A's volume to v/100 and, like toggle_sound
\* stopping A, leaves alone every channel that is playing another sound.
C8_VolumeActsOnOwnChannel ==
    [][\A s \in Registry :
          /\ \A v \in SliderValues :
                (last'.op = "on_volume_change" /\ last'.arg = <<s, v>>) =>
                    sounds'[s].volume * 100 = v * One
          /\ (last'.op \in {"on_volume_change", "toggle_sound"} /\ last'.arg[1] = s) =>
                \A c \in Channels :
                    chan[c].busy \notin {s, NoSound} => chan'[c] = chan[c]]_vars

\* C9: play_sound never finds all channels busy.
C9_ChannelsNeverExhausted == "No available audio channels" \notin last.msgs

\* C10: save_preset with an empty name changes neither the presets in memory
\* nor the file; load_preset with an empty or unknown name changes no slot and
\* no channel; a start with presets.json missing or not JSON has no presets.
C10_RejectedChangesNothing ==
    [][/\ (last'.op = "save_preset" /\ last'.arg = <<"">>) =>
             presets' = presets /\ file' = file
       /\ (last'.op = "load_preset" /\ last'.arg[1] \notin DOMAIN presets) =>
             sounds' = sounds /\ chan' = chan
       /\ (last'.op = "init" /\ file'.kind # "json") => presets' = NoPresets]_vars

\* With an unreadable presets.json and a changed mix, a preset that was never
\* saved was selected and loaded.
C10_Witness ==
    /\ file.kind = "invalid" /\ presets = NoPresets
    /\ last.op = "load_preset" /\ last.arg = <<"p2">>
    /\ sounds["Rain"].volume = 50 /\ sounds["Rain"].is_playing

====
